---- MODULE Spec2Model ----
(***************************************************************************)
(* Model of issue_leaderboard.py: the delta aggregator (get_leaderboard),  *)
(* the dump scanner (get_puppet_issue_counts and its gzip wrapper) and the *)
(* dump retrieval (download_nation_dump_if_not_exists).                    *)
(***************************************************************************)
EXTENDS Integers, Sequences, FiniteSets, TLC

\* ------------------------------------------------------------------------
\* Bounds
\* ------------------------------------------------------------------------
MaxPuppets == 3      \* longest watch-list
MaxCount == 1        \* largest ISSUES_ANSWERED value held in a snapshot
MaxRecords == 3      \* NATION records read from one dump
MaxCalls == 2        \* calls of download_nation_dump_if_not_exists in one run

\* ------------------------------------------------------------------------
\* State
\* ------------------------------------------------------------------------
VARIABLES
    \* get_leaderboard
    puppets,             \* dict puppet -> owner, in iteration order
    start_counts,        \* start_date_issue_counts
    end_counts,          \* end_date_issue_counts
    leaderboard,         \* the local dict owner -> running total
    idx,                 \* position of the for loop in puppets.items()
    aggPc,               \* "idle" | "loop" | "returned"
    result,              \* the returned dict, in iteration order
    \* get_puppet_issue_counts_from_gzip / get_puppet_issue_counts
    scan_puppets,        \* the keys of the puppets argument
    consumed,            \* the NATION records whose end event was delivered
    puppet_issue_counts, \* the local dict, as a function name -> count
    scanPc,              \* "idle" | "call" | "opened" | "iter" | "returned" | "raised"
    scanError,           \* the exception that ended the scan, or "none"
    open_streams,        \* the GzipFile objects opened and not closed
    retained,            \* NATION subtrees attached to the tree being built
    \* download_nation_dump_if_not_exists / download_nation_dump
    fs,                  \* the files on disk: path -> content, or Absent
    dlPc,                \* "idle" | "download" | "return" | "returned" | "raised"
    dump_date,           \* argument of the call in progress
    dump_filename,       \* local of the call in progress
    dl_result,           \* the value the last call returned
    requested,           \* whether the call in progress made its HTTP request
    fs_at_call,          \* the files on disk when the call in progress began
    calls                \* calls made so far

aggVars == <<puppets, start_counts, end_counts, leaderboard, idx, aggPc, result>>
scanVars == <<scan_puppets, consumed, puppet_issue_counts, scanPc, scanError,
              open_streams, retained>>
dlVars == <<fs, dlPc, dump_date, dump_filename, dl_result, requested, fs_at_call, calls>>
vars == <<aggVars, scanVars, dlVars>>

None == <<>>         \* Python's None: what find() gives for a missing element
Absent == "Absent"   \* no file at a path

\* the other functions are not running
IdleAgg ==
    /\ puppets = <<>> /\ start_counts = <<>> /\ end_counts = <<>>
    /\ leaderboard = <<>> /\ idx = 1 /\ aggPc = "idle" /\ result = <<>>

IdleScan ==
    /\ scan_puppets = {} /\ consumed = <<>> /\ puppet_issue_counts = <<>>
    /\ scanPc = "idle" /\ scanError = "none" /\ open_streams = {} /\ retained = 0

IdleDl ==
    /\ fs = <<>> /\ dlPc = "idle" /\ dump_date = None /\ dump_filename = None
    /\ dl_result = None /\ requested = FALSE /\ fs_at_call = <<>> /\ calls = 0

\* ------------------------------------------------------------------------
\* Python dicts: a sequence of <<key, value>> pairs in insertion order
\* ------------------------------------------------------------------------
DictKeys(d) == {d[i][1] : i \in DOMAIN d}

DictGet(d, k) == d[CHOOSE i \in DOMAIN d : d[i][1] = k][2]

\* d[k] = v: an existing key keeps its position, a new key goes last
DictSet(d, k, v) ==
    IF k \in DictKeys(d)
    THEN [i \in DOMAIN d |-> IF d[i][1] = k THEN <<k, v>> ELSE d[i]]
    ELSE Append(d, <<k, v>>)

\* dict(items): later pairs overwrite earlier ones with the same key
RECURSIVE DictFromItems(_)
DictFromItems(items) ==
    IF items = <<>> THEN <<>>
    ELSE LET n == Len(items)
         IN DictSet(DictFromItems(SubSeq(items, 1, n - 1)), items[n][1], items[n][2])

Reverse(s) == [i \in DOMAIN s |-> s[Len(s) + 1 - i]]

\* ------------------------------------------------------------------------
\* sorted(items, key=item[1], reverse=True)
\* ------------------------------------------------------------------------
\* one insertion of a stable ascending sort: x goes after every element whose
\* key is not greater than its own
RECURSIVE InsertAsc(_, _)
InsertAsc(s, x) ==
    IF s = <<>> THEN <<x>>
    ELSE IF x[2] < s[1][2] THEN <<x>> \o s
    ELSE <<s[1]>> \o InsertAsc(Tail(s), x)

RECURSIVE StableSortAsc(_)
StableSortAsc(s) ==
    IF s = <<>> THEN <<>>
    ELSE InsertAsc(StableSortAsc(SubSeq(s, 1, Len(s) - 1)), s[Len(s)])

\* faulty variant: the ascending order, reverse=True forgotten
SortedAscending(items) == StableSortAsc(items)

\* faulty variant: sort ascending, then reverse the result (ties come out reversed)
SortedThenReversed(items) == Reverse(StableSortAsc(items))

\* reverse=True keeps the sort stable: the list is reversed, sorted ascending
\* by a stable sort, and reversed again
SortedByTotalDesc(items) == Reverse(StableSortAsc(Reverse(items)))

\* ------------------------------------------------------------------------
\* get_leaderboard
\* ------------------------------------------------------------------------
\* the owner names of the sheet; the code only compares them, so the model
\* names the owners in the order in which the watch-list first meets them
OwnerNames == <<"owner 1", "owner 2", "owner 3">>

\* the key of the i-th entry of the watch-list (dict keys are distinct)
PuppetName(i) == <<"puppet", i>>

Max(S) == CHOOSE x \in S : \A y \in S : y <= x

\* entry i belongs to an owner met before it or to the next owner name
OwnerColumns(k) ==
    {o \in [1..k -> DOMAIN OwnerNames] :
        \A i \in 1..k : o[i] <= 1 + Max({o[j] : j \in 1..(i - 1)} \cup {0})}

WatchLists ==
    UNION {{[i \in 1..k |-> <<PuppetName(i), OwnerNames[o[i]]>>] : o \in OwnerColumns(k)}
           : k \in 0..MaxPuppets}

\* a snapshot holds entries for watched names only, and not for all of them
Snapshots(keys) == UNION {[D -> 0..MaxCount] : D \in SUBSET keys}

\* lines 172-176: the difference of a puppet found in the end snapshot
Contribution(puppet_name, start_date_issue_counts, end_date_issue_counts) ==
    IF puppet_name \notin DOMAIN start_date_issue_counts
    THEN end_date_issue_counts[puppet_name]
    ELSE end_date_issue_counts[puppet_name] - start_date_issue_counts[puppet_name]

\* lines 165-166
EnterOwner(lb, owner_name) ==
    IF owner_name \notin DictKeys(lb) THEN DictSet(lb, owner_name, 0) ELSE lb

\* faulty variant: the "continue" of line 169 placed before the initialisation, so an
\* owner is entered only once one of its puppets is in the end snapshot
LoopBodyContinueFirst(lb, puppet_name, owner_name, start_date_issue_counts, end_date_issue_counts) ==
    IF puppet_name \notin DOMAIN end_date_issue_counts
    THEN lb
    ELSE LET entered == EnterOwner(lb, owner_name)
         IN DictSet(entered, owner_name,
                    DictGet(entered, owner_name)
                      + Contribution(puppet_name, start_date_issue_counts, end_date_issue_counts))

\* faulty variant: a puppet missing from the end snapshot is counted as end value 0,
\* so its start count is subtracted
LoopBodySubtractingVanished(lb, puppet_name, owner_name, start_date_issue_counts, end_date_issue_counts) ==
    LET entered == EnterOwner(lb, owner_name)
    IN IF puppet_name \notin DOMAIN end_date_issue_counts
       THEN IF puppet_name \in DOMAIN start_date_issue_counts
            THEN DictSet(entered, owner_name,
                         DictGet(entered, owner_name) - start_date_issue_counts[puppet_name])
            ELSE entered
       ELSE DictSet(entered, owner_name,
                    DictGet(entered, owner_name)
                      + Contribution(puppet_name, start_date_issue_counts, end_date_issue_counts))

\* faulty variant: a negative difference is clamped to 0
LoopBodyClamped(lb, puppet_name, owner_name, start_date_issue_counts, end_date_issue_counts) ==
    LET entered == EnterOwner(lb, owner_name)
        c == IF puppet_name \in DOMAIN end_date_issue_counts
             THEN Contribution(puppet_name, start_date_issue_counts, end_date_issue_counts)
             ELSE 0
    IN IF puppet_name \notin DOMAIN end_date_issue_counts
       THEN entered
       ELSE DictSet(entered, owner_name,
                    DictGet(entered, owner_name) + (IF c < 0 THEN 0 ELSE c))

\* lines 165-176: the body of the loop, leaderboard before -> leaderboard after
LoopBody(lb, puppet_name, owner_name, start_date_issue_counts, end_date_issue_counts) ==
    LET entered == EnterOwner(lb, owner_name)
    IN IF puppet_name \notin DOMAIN end_date_issue_counts
       THEN entered                                          \* continue
       ELSE DictSet(entered, owner_name,
                    DictGet(entered, owner_name)
                      + Contribution(puppet_name, start_date_issue_counts, end_date_issue_counts))

InitAgg ==
    /\ puppets \in WatchLists
    /\ start_counts \in Snapshots(DictKeys(puppets))
    /\ end_counts \in Snapshots(DictKeys(puppets))
    /\ leaderboard = <<>>
    /\ idx = 1
    /\ aggPc = "loop"
    /\ result = <<>>
    /\ IdleScan
    /\ IdleDl

\* one iteration of "for puppet_name, owner_name in puppets.items()"
Iterate ==
    /\ aggPc = "loop"
    /\ idx <= Len(puppets)
    /\ leaderboard' = LoopBody(leaderboard, puppets[idx][1], puppets[idx][2],
                             start_counts, end_counts)
    /\ idx' = idx + 1
    /\ UNCHANGED <<puppets, start_counts, end_counts, aggPc, result>>
    /\ UNCHANGED <<scanVars, dlVars>>

\* line 178: the loop is exhausted, the sorted dict is returned
ReturnLeaderboard ==
    /\ aggPc = "loop"
    /\ idx > Len(puppets)
    /\ result' = DictFromItems(SortedByTotalDesc(leaderboard))
    /\ aggPc' = "returned"
    /\ UNCHANGED <<puppets, start_counts, end_counts, leaderboard, idx>>
    /\ UNCHANGED <<scanVars, dlVars>>

NextAgg == Iterate \/ ReturnLeaderboard

SpecAgg == InitAgg /\ [][NextAgg]_vars

\* ------------------------------------------------------------------------
\* canonical_nation_name and int()
\* ------------------------------------------------------------------------
\* str.lower(), character by character
LowerChar(c) ==
    CASE c = "P" -> "p"
      [] c = "Q" -> "q"
      [] OTHER -> c

\* line 34
canonical_nation_name(nation_name) ==
    [i \in DOMAIN nation_name |-> LowerChar(nation_name[i])]

Digits == {"0", "1", "2", "3", "4", "5", "6", "7", "8", "9"}

DigitValue(c) ==
    CASE c = "0" -> 0 [] c = "1" -> 1 [] c = "2" -> 2 [] c = "3" -> 3 [] c = "4" -> 4
      [] c = "5" -> 5 [] c = "6" -> 6 [] c = "7" -> 7 [] c = "8" -> 8 [] c = "9" -> 9

\* the texts int() accepts, among the texts of the model
IsIntText(text) == text # <<>> /\ \A i \in DOMAIN text : text[i] \in Digits

\* int(text) of a decimal text
RECURSIVE IntOf(_)
IntOf(text) ==
    IF text = <<>> THEN 0
    ELSE 10 * IntOf(SubSeq(text, 1, Len(text) - 1)) + DigitValue(text[Len(text)])

\* ------------------------------------------------------------------------
\* get_puppet_issue_counts
\* ------------------------------------------------------------------------
\* NAME texts of the records of a dump
RawNames == {<<"P", "1">>, <<"p", "1">>, <<"Q", "2">>}

\* ISSUES_ANSWERED texts of the records of a dump
IssueTexts == {<<"7">>, <<"1", "2">>, <<"x">>}

\* a NATION element: the text of its NAME and ISSUES_ANSWERED children, None
\* for a child that is not there
Records == [name : RawNames \cup {None}, issues : IssueTexts \cup {None}]

\* the watch-list keys are canonical names (get_puppets_from_sheet, line 87)
WatchKeys == {canonical_nation_name(n) : n \in RawNames}

\* faulty variant: an entry already recorded is kept (first occurrence wins)
RecordCountOnce(counts, nation_name, issue_count) ==
    IF nation_name \in DOMAIN counts THEN counts
    ELSE [k \in DOMAIN counts \cup {nation_name} |->
            IF k = nation_name THEN issue_count ELSE counts[k]]

\* line 142: puppet_issue_counts[nation_name] = issue_count
RecordCount(counts, nation_name, issue_count) ==
    [k \in DOMAIN counts \cup {nation_name} |->
        IF k = nation_name THEN issue_count ELSE counts[k]]

\* lines 139-142 on one NATION element: the exception raised, if any
RecordError(r, names) ==
    IF r.name = None THEN "AttributeError"            \* None has no .text
    ELSE IF canonical_nation_name(r.name) \notin names THEN "none"
    ELSE IF r.issues = None THEN "AttributeError"     \* None has no .text
    ELSE IF ~IsIntText(r.issues) THEN "ValueError"    \* int() of a non-number
    ELSE "none"

InitScan ==
    /\ scan_puppets \in SUBSET WatchKeys
    /\ consumed = <<>>
    /\ puppet_issue_counts = <<>>
    /\ scanPc = "call"
    /\ scanError = "none"
    /\ open_streams = {}
    /\ retained = 0
    /\ IdleAgg
    /\ IdleDl

\* line 147: dump_file = gzip.open(filename)
OpenFromGzip ==
    /\ scanPc = "call"
    /\ open_streams' = open_streams \cup {"get_puppet_issue_counts_from_gzip.dump_file"}
    /\ scanPc' = "opened"
    /\ UNCHANGED <<scan_puppets, consumed, puppet_issue_counts, scanError, retained>>
    /\ UNCHANGED <<aggVars, dlVars>>

\* lines 135-136: dump_file = gzip.open(dump_file); puppet_issue_counts = {}
OpenScan ==
    /\ scanPc = "opened"
    /\ open_streams' = open_streams \cup {"get_puppet_issue_counts.dump_file"}
    /\ puppet_issue_counts' = <<>>
    /\ scanPc' = "iter"
    /\ UNCHANGED <<scan_puppets, consumed, scanError, retained>>
    /\ UNCHANGED <<aggVars, dlVars>>

\* lines 137-142: iterparse delivers the end event of the next NATION element.
\* The element stays attached to the tree iterparse builds: the loop never
\* clears it.
EndNation(r) ==
    /\ scanPc = "iter"
    /\ Len(consumed) < MaxRecords
    /\ consumed' = Append(consumed, r)
    /\ retained' = retained + 1
    /\ scanError' = RecordError(r, scan_puppets)
    /\ IF scanError' # "none"
       THEN /\ scanPc' = "raised"
            /\ UNCHANGED puppet_issue_counts
       ELSE /\ scanPc' = "iter"
            /\ puppet_issue_counts' =
                 IF canonical_nation_name(r.name) \in scan_puppets
                 THEN RecordCount(puppet_issue_counts, canonical_nation_name(r.name),
                                  IntOf(r.issues))
                 ELSE puppet_issue_counts
    /\ UNCHANGED <<scan_puppets, open_streams>>
    /\ UNCHANGED <<aggVars, dlVars>>

\* line 137: reading the stream fails (not gzip data, truncated, not XML)
StreamError ==
    /\ scanPc = "iter"
    /\ scanError' = "OSError"
    /\ scanPc' = "raised"
    /\ UNCHANGED <<scan_puppets, consumed, puppet_issue_counts, open_streams, retained>>
    /\ UNCHANGED <<aggVars, dlVars>>

\* line 143 and line 148: the stream is exhausted, the dict is returned
ReturnCounts ==
    /\ scanPc = "iter"
    /\ scanPc' = "returned"
    /\ UNCHANGED <<scan_puppets, consumed, puppet_issue_counts, scanError, open_streams,
                   retained>>
    /\ UNCHANGED <<aggVars, dlVars>>

\* Neither function closes its stream. After a return the GzipFile objects are
\* unreferenced and the interpreter closes them when it collects them, which it
\* may do at once, later or never; while an exception propagates its traceback
\* keeps both frames, and so both objects, alive.
Finalize ==
    /\ scanPc = "returned"
    /\ open_streams # {}
    /\ open_streams' = {}
    /\ UNCHANGED <<scan_puppets, consumed, puppet_issue_counts, scanPc, scanError, retained>>
    /\ UNCHANGED <<aggVars, dlVars>>

NextScan ==
    \/ OpenFromGzip
    \/ OpenScan
    \/ \E r \in Records : EndNation(r)
    \/ StreamError
    \/ ReturnCounts
    \/ Finalize

SpecScan == InitScan /\ [][NextScan]_vars

\* ------------------------------------------------------------------------
\* download_nation_dump_if_not_exists
\* ------------------------------------------------------------------------
Dates == {<<"2021-01-01">>, <<"2021-01-02">>}

\* line 19 and line 117: NATION_DUMP_NAME.format(date=dump_date)
DumpName(date) == date \o <<"-nations-xml.gz">>

Paths == Dates \cup {DumpName(d) : d \in Dates}

\* os.path.exists
Exists(files, path) == path \in DOMAIN files /\ files[path] # Absent

\* line 118: "if not os.path.exists(dump_date)" tests the date, not the filename
MustDownload(files, date, filename) == ~Exists(files, date)

InitDl ==
    /\ fs \in [Paths -> {Absent, "cached"}]
    /\ dlPc = "idle"
    /\ dump_date = None
    /\ dump_filename = None
    /\ dl_result = None
    /\ requested = FALSE
    /\ fs_at_call = fs
    /\ calls = 0
    /\ IdleAgg
    /\ IdleScan

\* lines 117-118: main calls the function for the start date and the end date
CallDownload(d) ==
    /\ dlPc \in {"idle", "returned"}
    /\ calls < MaxCalls
    /\ calls' = calls + 1
    /\ dump_date' = d
    /\ dump_filename' = DumpName(d)
    /\ fs_at_call' = fs
    /\ requested' = FALSE
    /\ dlPc' = IF MustDownload(fs, d, DumpName(d)) THEN "download" ELSE "return"
    /\ UNCHANGED <<fs, dl_result>>
    /\ UNCHANGED <<aggVars, scanVars>>

\* lines 98-104: the request succeeds and the body is written to dump_filename
DownloadOk ==
    /\ dlPc = "download"
    /\ requested' = TRUE
    /\ fs' = [fs EXCEPT ![dump_filename] = "fetched"]
    /\ dlPc' = "return"
    /\ UNCHANGED <<dump_date, dump_filename, dl_result, fs_at_call, calls>>
    /\ UNCHANGED <<aggVars, scanVars>>

\* lines 100-101: raise_for_status() raises HTTPError, nothing is written
DownloadHttpError ==
    /\ dlPc = "download"
    /\ requested' = TRUE
    /\ dlPc' = "raised"
    /\ UNCHANGED <<fs, dump_date, dump_filename, dl_result, fs_at_call, calls>>
    /\ UNCHANGED <<aggVars, scanVars>>

\* line 120
ReturnFilename ==
    /\ dlPc = "return"
    /\ dl_result' = dump_filename
    /\ dlPc' = "returned"
    /\ UNCHANGED <<fs, dump_date, dump_filename, requested, fs_at_call, calls>>
    /\ UNCHANGED <<aggVars, scanVars>>

NextDl ==
    \/ \E d \in Dates : CallDownload(d)
    \/ DownloadOk
    \/ DownloadHttpError
    \/ ReturnFilename

SpecDl == InitDl /\ [][NextDl]_vars

\* ------------------------------------------------------------------------
\* Properties of get_leaderboard
\* ------------------------------------------------------------------------
OwnersOf(W) == {W[i][2] : i \in DOMAIN W}

TotalOf(d, k) == IF k \in DictKeys(d) THEN DictGet(d, k) ELSE 0

\* the puppets of owner o that the end snapshot holds, by watch-list position
CountedPuppets(o) ==
    {i \in DOMAIN puppets : puppets[i][2] = o /\ puppets[i][1] \in DOMAIN end_counts}

Delta(i) ==
    end_counts[puppets[i][1]]
      - (IF puppets[i][1] \in DOMAIN start_counts THEN start_counts[puppets[i][1]] ELSE 0)

RECURSIVE SumDelta(_)
SumDelta(S) ==
    IF S = {} THEN 0
    ELSE LET i == CHOOSE x \in S : TRUE IN Delta(i) + SumDelta(S \ {i})

\* position in the watch-list at which owner o is first met
FirstSeen(o) ==
    CHOOSE i \in DOMAIN puppets :
        puppets[i][2] = o /\ \A j \in 1..(i - 1) : puppets[j][2] # o

\* C1: the keys of the returned leaderboard are exactly the owner values of
\* the watch-list, each owner once, whatever the snapshots hold.
C1_OwnersExactlyOnce ==
    aggPc = "returned" =>
        /\ DictKeys(result) = OwnersOf(puppets)
        /\ \A i, j \in DOMAIN result : result[i][1] = result[j][1] => i = j

\* an owner none of whose puppets is in either snapshot is on a returned
\* leaderboard next to an owner with a non-zero total
C1_Witness ==
    /\ aggPc = "returned"
    /\ \E o \in OwnersOf(puppets) :
         /\ \A i \in DOMAIN puppets :
              puppets[i][2] = o =>
                puppets[i][1] \notin (DOMAIN start_counts \cup DOMAIN end_counts)
         /\ TotalOf(result, o) = 0
    /\ \E e \in DOMAIN result : result[e][2] # 0

\* C2: an iteration over a puppet that is absent from the end snapshot leaves
\* its owner's total as it was (0 for an owner entered by this iteration),
\* whether or not the start snapshot holds the puppet.
C2_VanishedContributesZero ==
    [][(aggPc = "loop" /\ idx <= Len(puppets)
          /\ puppets[idx][1] \notin DOMAIN end_counts)
       => TotalOf(leaderboard', puppets[idx][2]) = TotalOf(leaderboard, puppets[idx][2])]_vars

\* the loop has passed a puppet that only the start snapshot holds, with a
\* positive start count, whose owner already had a total
C2_Witness ==
    /\ aggPc = "loop"
    /\ \E i \in 2..(idx - 1) :
         /\ puppets[i][1] \notin DOMAIN end_counts
         /\ puppets[i][1] \in DOMAIN start_counts
         /\ start_counts[puppets[i][1]] > 0
         /\ \E j \in 1..(i - 1) : puppets[j][2] = puppets[i][2]

\* C3: each owner's returned total is the sum, over the owner's puppets held
\* by the end snapshot, of end value minus start value (0 when the start
\* snapshot has no entry); the sum may be negative.
C3_TotalsAreSumsOfDeltas ==
    aggPc = "returned" =>
        \A o \in OwnersOf(puppets) :
            o \in DictKeys(result) /\ DictGet(result, o) = SumDelta(CountedPuppets(o))

\* a returned leaderboard with a negative total, made of a new puppet whose
\* end value is 0 and a second puppet of the same owner whose count dropped
C3_Witness ==
    /\ aggPc = "returned"
    /\ \E o \in OwnersOf(puppets) :
         /\ DictGet(result, o) < 0
         /\ Cardinality(CountedPuppets(o)) >= 2
         /\ \E i \in CountedPuppets(o) :
              puppets[i][1] \notin DOMAIN start_counts /\ end_counts[puppets[i][1]] = 0

\* C4: the returned leaderboard is in descending order of total and holds
\* exactly the entries the loop built, tied owners included.
C4_SortedDescending ==
    aggPc = "returned" =>
        /\ \A i \in 1..(Len(result) - 1) : result[i][2] >= result[i + 1][2]
        /\ Len(result) = Len(leaderboard)
        /\ {result[i] : i \in DOMAIN result} = {leaderboard[i] : i \in DOMAIN leaderboard}

\* three owners, two of them tied, returned in another order than the loop
\* entered them
C4_Witness ==
    /\ aggPc = "returned"
    /\ Len(result) = 3
    /\ result # leaderboard
    /\ \E i \in 1..2 : result[i][2] = result[i + 1][2]
    /\ result[1][2] > result[3][2]

\* C10: owners with equal totals are returned in the order in which the
\* watch-list first meets them.
C10_TiesInFirstEncounterOrder ==
    aggPc = "returned" =>
        \A i, j \in DOMAIN result :
            (i < j /\ result[i][2] = result[j][2])
                => FirstSeen(result[i][1]) < FirstSeen(result[j][1])

\* two tied owners are returned behind an owner the watch-list meets last
C10_Witness ==
    /\ aggPc = "returned"
    /\ Len(result) = 3
    /\ result[2][2] = result[3][2]
    /\ result[1][2] > result[2][2]
    /\ FirstSeen(result[1][1]) > FirstSeen(result[3][1])

\* ------------------------------------------------------------------------
\* Properties of the dump scan
\* ------------------------------------------------------------------------
\* the lower-cased names of the records read so far
NamesRead ==
    {canonical_nation_name(consumed[i].name) :
        i \in {j \in DOMAIN consumed : consumed[j].name # None}}

\* position of the last record read that carries the name k
LastRecord(k) ==
    CHOOSE i \in DOMAIN consumed :
        /\ consumed[i].name # None /\ canonical_nation_name(consumed[i].name) = k
        /\ \A j \in (i + 1)..Len(consumed) :
             consumed[j].name = None \/ canonical_nation_name(consumed[j].name) # k

\* a record the scan cannot read: no NAME, or watched with no usable count
Malformed(r) ==
    \/ r.name = None
    \/ /\ canonical_nation_name(r.name) \in scan_puppets
       /\ (r.issues = None \/ ~IsIntText(r.issues))

\* the counts of the well-formed watched records among the first n read
RECURSIVE CountsSkippingMalformed(_)
CountsSkippingMalformed(n) ==
    IF n = 0 THEN <<>>
    ELSE LET before == CountsSkippingMalformed(n - 1)
             r == consumed[n]
         IN IF Malformed(r) \/ canonical_nation_name(r.name) \notin scan_puppets
            THEN before
            ELSE [k \in DOMAIN before \cup {canonical_nation_name(r.name)} |->
                    IF k = canonical_nation_name(r.name) THEN IntOf(r.issues)
                    ELSE before[k]]

C6_MalformedRecordSkipped ==
    /\ scanPc = "raised" => scanError = "OSError"
    /\ scanPc = "returned" =>
         puppet_issue_counts = CountsSkippingMalformed(Len(consumed))

\* C7: when the scan call has ended, by return or by exception, no stream it
\* opened is still open.
C7_StreamsClosedAtEnd ==
    scanPc \in {"returned", "raised"} => open_streams = {}

\* C8: the scan holds the subtree of at most the record it is handling.
C8_BoundedRetention ==
    retained <= 1

\* ------------------------------------------------------------------------
\* Properties of the dump retrieval
\* ------------------------------------------------------------------------
\* C9: a call that returns gives the dump filename of its date; if that file
\* was on disk when the call began, no request was made and the disk is as it
\* was, otherwise the file now holds the downloaded dump.
C9_DownloadOnlyIfMissing ==
    dlPc = "returned" =>
        /\ dl_result = DumpName(dump_date)
        /\ IF Exists(fs_at_call, DumpName(dump_date))
           THEN ~requested /\ fs = fs_at_call
           ELSE requested /\ fs[DumpName(dump_date)] = "fetched"

====
